---- MODULE Spec2Model ----
(***************************************************************************)
(* The iterative SQL exploration agent of gpt-do                           *)
(* (src/gpt_do/wtfers/sql_wtfer.py): the Sample turn record, the SQL       *)
(* sanitizer, the failover / retry policy of SQLWTFer._query and the       *)
(* iteration protocol SQLWTFer.__iter__ / __next__.                        *)
(*                                                                         *)
(* SQL text is abstracted to a sequence of statements; a statement is a    *)
(* record [text, limit] where limit is the value of its top-level LIMIT    *)
(* clause (0: no LIMIT clause).  What sqlparse, sqlvalidator and sqlite    *)
(* answer for a statement is given by the sets below.  The rewriting of a  *)
(* statement's LIMIT clause is modelled a second time on the statement's   *)
(* top-level tokens (_apply_limit_tokens, _relax_limit_tokens).            *)
(***************************************************************************)
EXTENDS Integers, Sequences, FiniteSets, TLC

\* ---------------------------------------------------------------- bounds
\* number of model calls (steps of the iteration) explored in one session
\* with every model output of Raws
MaxCalls == 2
\* number of model calls explored in one session with the model outputs of
\* LoopRaws
MaxTurns == 4
\* number of failed request attempts explored in one session
MaxFailures == 3
\* largest value of an existing LIMIT clause given to the limit rewriting
MaxLimitArg == 26
\* the context limit of the models, in records: the number of formatted
\* records that fit into one prompt
ContextLimit == 4
\* longest reason and longest query, in tokens, given to format and parse
MaxReasonLen == 2
MaxQueryLen == 4
\* number of rows held by every table of the database, the catalog included
TableRows == 30

\* ------------------------------------------------------ program constants
MAX_RESULTS == 2
RELAXED_LIMIT == 25
RETRY_TRIES == 3

MODELS == <<"code-davinci-002", "text-davinci-003">>

\* the models the command line can hand to the session (cli/wtf.py:17)
CliModels == {"text-davinci-003", "code-davinci-002", "chatgpt"}

SAFE_TABLES == {"sqlite_master", "sqlite_temp_master"}

\* ------------------------------------------------------------ statements
SelVersion == "SELECT sqlite_version()"
SelTables == "SELECT name FROM sqlite_master WHERE type='table'"
SelOk == "SELECT a FROM t"
SelErr == "SELECT a FROM nosuch"
SelQuote == "SELECT a FROM [o'brien]"
SelInvalid == "SELECT FROM WHERE"
PragmaRead == "PRAGMA table_info(t)"
PragmaOff == "PRAGMA query_only = 0"
PragmaWrite == "PRAGMA user_version = 7"
CreateSel == "CREATE TABLE u AS SELECT a FROM t"
DropTable == "DROP TABLE t"
Prose == "I do not know"
\* a statement given to populate on its own, written without terminator:
\* the injected clause lands before its last token (_apply_limit, index
\* -1) and the validator rejects the result
SelBare == "SELECT b FROM t"

Texts ==
    {SelVersion, SelTables, SelOk, SelErr, SelQuote, SelInvalid, PragmaRead,
     PragmaOff, PragmaWrite, CreateSel, DropTable, Prose}

\* the statement type: the keyword the statement starts with
StmtType(text) ==
    CASE text \in {SelVersion, SelTables, SelOk, SelErr, SelQuote, SelInvalid,
                   SelBare}
            -> "SELECT"
      [] text \in {PragmaRead, PragmaOff, PragmaWrite} -> "PRAGMA"
      [] text = CreateSel -> "CREATE"
      [] text = DropTable -> "DROP"
      [] OTHER -> "TEXT"

\* a DML SELECT token occurs among the flattened tokens of the statement
HasSelectToken(text) ==
    text \in {SelVersion, SelTables, SelOk, SelErr, SelQuote, SelInvalid, CreateSel,
              SelBare}

\* a Name token PRAGMA occurs among the flattened tokens of the statement
HasPragmaToken(text) == text \in {PragmaRead, PragmaOff, PragmaWrite}

\* the value of the token after the first FROM keyword (None: no such token)
FromTable(text) ==
    CASE text = SelTables -> "sqlite_master"
      [] text \in {SelOk, CreateSel, SelBare} -> "t"
      [] text = SelErr -> "nosuch"
      [] text = SelQuote -> "[o'brien]"
      [] text = SelInvalid -> "WHERE"
      [] OTHER -> "None"

\* sqlvalidator.parse(text).is_valid()
IsValid(text) == text \notin {SelInvalid, Prose}

\* sqlvalidator.parse(text + " LIMIT n ").is_valid()
IsValidWithLimit(text) ==
    IsValid(text) /\ ~HasPragmaToken(text) /\ text # SelBare

Stmt(text) == [text |-> text, limit |-> 0]

\* ------------------------------------------------------------- database
\* the connection after _init_db: PRAGMA query_only = 1 has been executed
\* (is_db: the file given as database holds a SQLite database)
InitialDb == [query_only |-> TRUE, content |-> {}, is_db |-> TRUE]

\* the connection to a file that is not a SQLite database: sqlite3.connect
\* and PRAGMA query_only = 1 succeed on it
NotADb == [InitialDb EXCEPT !.is_db = FALSE]

\* the statement neither reads nor writes the database file
NeedsNoFile(text) == text \in {SelVersion, PragmaOff}

\* sqlite's answer to curr.execute(statement): the outcome and the database
\* afterwards.  "rows": a result set; "none": no row; "error": an exception
\* whose message has no single quote; "error_quote": an exception whose
\* message contains a single quote (no such table: o'brien).
CursorExecute(d, st) ==
    IF ~d.is_db /\ ~NeedsNoFile(st.text)
    THEN \* DatabaseError: file is not a database
         [db |-> d, out |-> "error"]
    ELSE
    CASE st.text \in {PragmaWrite, CreateSel} ->
            IF d.query_only
            THEN [db |-> d, out |-> "error"]
            ELSE [db |-> [d EXCEPT !.content = @ \cup {st.text}], out |-> "none"]
      [] st.text = PragmaOff ->
            [db |-> [d EXCEPT !.query_only = FALSE], out |-> "none"]
      [] st.text = SelErr -> [db |-> d, out |-> "error"]
      [] st.text = SelQuote -> [db |-> d, out |-> "error_quote"]
      [] OTHER -> [db |-> d, out |-> "rows"]

\* ------------------------------------------------------------- responses
\* Python's None as the value of response, of reason and of query
None == <<"None">>
NoneReason == "None"
NoneQuery == <<[text |-> "None", limit |-> 0]>>
TooLong == <<"(too long)">>
Rows == "<table>"
ErrorRow == "Error: <message>. Try a different way."
ValidatorError == "<validator error>"


\* ---------------------------------------------------------------- Sample
\* The dataclass fields, and three fields kept for the record's history:
\*   runs    the calls of populate that went on to the record's statements
\*   writes  the assignments to the record's response
\*   born    the model call whose completion the record was parsed from
\*           (0: a seed example), which tells the records apart
Sample(final, reason, query) ==
    [final |-> final, reason |-> reason, query |-> query,
     original_query |-> query, errored |-> FALSE, response |-> None,
     runs |-> 0, writes |-> 0, born |-> 0]

\* Sample.is_empty: the fields are compared with None, and a parsed record
\* holds strings ("" for a missing reason or query), never None
is_empty(s) == s.query = NoneQuery /\ s.reason = NoneReason /\ ~s.final

\* Sample._apply_limit on a statement whose last token is its terminator
\* (the form of the seed examples): the clause lands before the terminator
\* and stays when the validator accepts it.  _apply_limit_tokens below has
\* the statements without a terminator.
_apply_limit(st, n) ==
    IF st.limit # 0 THEN st
    ELSE IF IsValidWithLimit(st.text) THEN [st EXCEPT !.limit = n]
    ELSE st

\* Sample._relax_limit
_relax_limit(st) ==
    IF st.limit # 0
    THEN IF st.limit # 1 THEN [st EXCEPT !.limit = RELAXED_LIMIT] ELSE st
    ELSE _apply_limit(st, RELAXED_LIMIT)

\* ------------------------------------------- limit rewriting on tokens
\* A statement as the sequence of the values of its top-level tokens
\* (whitespace left out); the terminator ";", when present, is the last one.
Cores ==
    { <<"SELECT", "a", "FROM", "t">>,
      <<"SELECT", "a", "FROM", "t", "WHERE a = 1">>,
      <<"SELECT", "a", "FROM", "t", "ORDER BY", "a">>,
      <<"SELECT", "sqlite_version()">> }

Statements ==
    { core \o limit \o semi :
        core \in Cores,
        limit \in {<<>>} \cup {<<"LIMIT", ToString(n)>> : n \in 1..MaxLimitArg},
        semi \in {<<>>, <<";">>} }

\* any(t.match(Keyword, ["LIMIT"]) for t in statement)
HasLimit(t) == \E i \in DOMAIN t : t[i] = "LIMIT"

\* the position of the first LIMIT keyword
LimitIndex(t) ==
    CHOOSE i \in DOMAIN t : t[i] = "LIMIT" /\ \A j \in 1..(i - 1) : t[j] # "LIMIT"

\* the LIMIT clause closes the statement: only the terminator may follow it
WellPlaced(t) ==
    HasLimit(t) /\
        LET i == LimitIndex(t)
        IN  /\ i + 1 <= Len(t)
            /\ SubSeq(t, i + 2, Len(t)) \in {<<>>, <<";">>}

\* sqlvalidator.parse(str(statement)).is_valid() on a rewritten statement
\* that was valid before: a LIMIT clause that closes the statement is
\* accepted; whether the validator notices a clause anywhere else is an
\* input (lenient)
is_valid_tokens(t, lenient) == WellPlaced(t) \/ lenient

\* Python's tokens[index:index] = ins for index = -1: ins goes before the
\* last element
InsertAtMinusOne(t, ins) ==
    LET k == IF Len(t) = 0 THEN 0 ELSE Len(t) - 1
    IN  SubSeq(t, 1, k) \o ins \o SubSeq(t, k + 1, Len(t))

\* Sample._apply_limit on the tokens.  token_index is asked for a Token
\* object made on the spot: with or without a ";" among the tokens the
\* insertion is the one at index -1 (a ";" is the last token).
_apply_limit_tokens(t, n, lenient) ==
    IF HasLimit(t) THEN t
    ELSE LET new == InsertAtMinusOne(t, <<"LIMIT", ToString(n)>>)
         IN  IF is_valid_tokens(new, lenient) THEN new ELSE t

\* Sample._relax_limit on the tokens
_relax_limit_tokens(t, lenient) ==
    IF HasLimit(t)
    THEN LET i == LimitIndex(t)
         IN  IF t[i + 1] # "1"
             THEN [t EXCEPT ![i + 1] = ToString(RELAXED_LIMIT)]
             ELSE t
    ELSE _apply_limit_tokens(t, RELAXED_LIMIT, lenient)

\* The state threaded through the execution of a record's statements:
\*   s        the record
\*   db       the database
\*   log      the statements passed to the cursor by Sample._execute
\*   contrib  the statements that contributed a result to the response
\*   results  the results of the statements so far (None results left out)
\*   raised   the database raised an exception on a statement of the record
\*   crashed  an exception left Sample._execute
\*   trace    one entry per statement handled by execute_and_format: its
\*            text, what became of it ("skipped", "invalid", "run"), the
\*            LIMIT it came with and the LIMIT it was executed with (0:
\*            none), the rows fetched from the cursor, the truncate
\*            argument (the rendering is capped) and the record's final
Ctx(s, d) ==
    [s |-> s, db |-> d, log |-> {}, contrib |-> {}, results |-> <<>>,
     raised |-> FALSE, crashed |-> FALSE, trace |-> <<>>]

Entry(c, st, kind) ==
    [text |-> st.text, kind |-> kind, given |-> st.limit, limit |-> st.limit,
     fetched |-> 0, capped |-> FALSE, final |-> c.s.final]

\* the rows the cursor holds after curr.execute(statement)
CursorRows(st) ==
    LET all == IF st.text = SelVersion THEN 1 ELSE TableRows
    IN  IF st.limit # 0 /\ st.limit < all THEN st.limit ELSE all

\* Cursor.fetchmany(): at most arraysize rows, and _init_db sets arraysize
\* to MAX_RESULTS
fetchmany(n) == IF n < MAX_RESULTS THEN n ELSE MAX_RESULTS

\* Cursor.fetchall()
fetchall(n) == n

\* the rows the fetch returns: those of the statement, the single row
\* of the synthetic SELECT after an error, none otherwise
Fetched(c, st, many) ==
    LET out == CursorExecute(c.db, st).out
    IN  CASE out = "rows" ->
                IF many THEN fetchmany(CursorRows(st)) ELSE fetchall(CursorRows(st))
          [] out = "error" -> 1
          [] OTHER -> 0

\* _execute writing the executed text to original_query as well
_execute_both_queries(c, st) ==
    LET r == CursorExecute(c.db, st)
        c1 == [c EXCEPT !.s.query = <<st>>, !.s.original_query = <<st>>,
                        !.db = r.db, !.log = @ \cup {st.text}]
    IN  CASE r.out = "rows" ->
                [c1 EXCEPT !.results = Append(@, Rows), !.contrib = @ \cup {st.text}]
          [] r.out = "none" -> c1
          [] r.out = "error" ->
                [c1 EXCEPT !.s.errored = TRUE, !.raised = TRUE,
                           !.results = Append(@, ErrorRow),
                           !.contrib = @ \cup {st.text}]
          [] OTHER ->
                [c1 EXCEPT !.s.errored = TRUE, !.raised = TRUE, !.crashed = TRUE]

\* Sample._execute and the tab / fetch of its result
_execute(c, st) ==
    LET r == CursorExecute(c.db, st)
        c1 == [c EXCEPT !.s.query = <<st>>, !.db = r.db, !.log = @ \cup {st.text}]
    IN  CASE r.out = "rows" ->
                [c1 EXCEPT !.results = Append(@, Rows), !.contrib = @ \cup {st.text}]
          [] r.out = "none" -> c1
          [] r.out = "error" ->
                [c1 EXCEPT !.s.errored = TRUE, !.raised = TRUE,
                           !.results = Append(@, ErrorRow),
                           !.contrib = @ \cup {st.text}]
          [] OTHER ->
                \* the message closes the string literal of the synthetic
                \* SELECT, whose execution raises in the except clause
                [c1 EXCEPT !.s.errored = TRUE, !.raised = TRUE, !.crashed = TRUE]

\* execute fetching with fetchall in both branches
execute_fetchall(c, st, truncate) ==
    LET st1 == IF truncate THEN _apply_limit(st, MAX_RESULTS)
               ELSE IF c.s.final THEN _relax_limit(st) ELSE st
        c1 == _execute(c, st1)
    IN  [c1 EXCEPT !.trace = Append(@,
            [Entry(c, st, "run") EXCEPT !.limit = st1.limit,
                                        !.fetched = Fetched(c, st1, FALSE),
                                        !.capped = truncate])]

\* Sample.execute under the tab decorator
execute(c, st, truncate) ==
    LET st1 == IF truncate THEN _apply_limit(st, MAX_RESULTS)
               ELSE IF c.s.final THEN _relax_limit(st) ELSE st
        c1 == _execute(c, st1)
    IN  [c1 EXCEPT !.trace = Append(@,
            [Entry(c, st, "run") EXCEPT !.limit = st1.limit,
                                        !.fetched = Fetched(c, st1, truncate),
                                        !.capped = truncate])]

\* execute_and_format without the validation of a SELECT statement
execute_and_format_unchecked(c, st) ==
    LET select == HasSelectToken(st.text)
        pragma == HasPragmaToken(st.text)
        table == FromTable(st.text)
    IN  IF ~(select \/ pragma)
        THEN [c EXCEPT !.trace = Append(@, Entry(c, st, "skipped"))]
        ELSE execute(c, st, ~(c.s.final \/ pragma \/ table \in SAFE_TABLES))

\* Sample.execute_and_format
execute_and_format(c, st) ==
    LET select == HasSelectToken(st.text)
        pragma == HasPragmaToken(st.text)
        table == FromTable(st.text)
    IN  IF ~(select \/ pragma)
        THEN [c EXCEPT !.trace = Append(@, Entry(c, st, "skipped"))]
        ELSE IF select /\ ~IsValid(st.text)
        THEN [c EXCEPT !.results = Append(@, ValidatorError),
                       !.contrib = @ \cup {st.text},
                       !.trace = Append(@, Entry(c, st, "invalid"))]
        ELSE execute(c, st, ~(c.s.final \/ pragma \/ table \in SAFE_TABLES))

RECURSIVE execute_all(_, _, _)
execute_all(c, statements, i) ==
    IF i > Len(statements) \/ c.crashed THEN c
    ELSE execute_all(execute_and_format(c, statements[i]), statements, i + 1)

\* Sample.populate on record s with database d
populate(s, d) ==
    IF s.query = <<>> THEN Ctx(s, d)
    ELSE LET statements == IF s.final THEN s.original_query ELSE s.query
             c == execute_all(Ctx([s EXCEPT !.runs = @ + 1], d), statements, 1)
         IN  IF c.crashed THEN c
             ELSE [c EXCEPT !.s.response = c.results, !.s.writes = @ + 1]


\* ----------------------------------------------------------- model output
\* The text a completion returns, by what Sample.parse reads in
\* "FINAL: <raw>\nEND-QUERY":
\*   final    the word after the FINAL: marker ("": neither True nor False)
\*   reason   the rest of the REASON: line (NoMatch: no REASON: marker)
\*   markers  a START-QUERY marker is present
\*   sql      the statements of the query body (of the whole text when it
\*            carries no marker at all)
NoMatch == "<no match>"

Raw(final, reason, markers, sql) ==
    [final |-> final, reason |-> reason, markers |-> markers, sql |-> sql]

Raws ==
    { Raw("False", "r", TRUE, <<Stmt(SelOk)>>),
      Raw("False", "r", TRUE, <<Stmt(SelErr)>>),
      Raw("False", "r", TRUE, <<Stmt(SelQuote)>>),
      Raw("False", "r", TRUE, <<Stmt(PragmaOff), Stmt(PragmaWrite)>>),
      Raw("False", "r", TRUE, <<Stmt(CreateSel), Stmt(DropTable)>>),
      Raw("False", "r", TRUE, <<Stmt(SelInvalid), Stmt(PragmaRead)>>),
      Raw("False", NoMatch, FALSE, <<>>),
      Raw("True", "r", TRUE, <<Stmt(SelOk)>>),
      Raw("True", "r", TRUE, <<Stmt(SelErr)>>),
      Raw("True", "r", TRUE, <<Stmt(SelQuote)>>),
      Raw("True", "r", TRUE, <<Stmt(SelErr), Stmt(SelOk)>>),
      Raw("True", "r", FALSE, <<>>),
      Raw("", NoMatch, FALSE, <<Stmt(SelOk)>>),
      Raw("", NoMatch, FALSE, <<Stmt(Prose)>>) }

\* the outputs that differ in what the loop does with the record: a query
\* that runs, a query that fails, no query at all, a final record that fails
\* and a final record that runs
LoopRaws ==
    { Raw("False", "r", TRUE, <<Stmt(SelOk)>>),
      Raw("False", "r", TRUE, <<Stmt(SelErr)>>),
      Raw("False", NoMatch, FALSE, <<>>),
      Raw("True", "r", TRUE, <<Stmt(SelErr)>>),
      Raw("True", "r", TRUE, <<Stmt(SelOk)>>) }

\* sqlvalidator.parse(query).is_valid() on a whole text
IsValidText(sql) == sql # <<>> /\ \A i \in DOMAIN sql : IsValid(sql[i].text)

\* Sample.parse
parse(raw) ==
    LET final_match == raw.final # ""
        reason_match == raw.reason # NoMatch
        bare == ~raw.markers /\ ~reason_match /\ ~final_match
        final == IF final_match THEN raw.final = "True"
                 ELSE bare /\ IsValidText(raw.sql)
        reason == IF reason_match THEN raw.reason ELSE ""
        query == IF raw.markers THEN raw.sql
                 ELSE IF bare /\ IsValidText(raw.sql) THEN raw.sql
                 ELSE <<>>
    IN  Sample(final, reason, query)

\* -------------------------------------------------------------- SQLWTFer
EXAMPLES ==
    << Sample(FALSE, "I need to know what version of sqlite I am using.",
              <<Stmt(SelVersion)>>),
       Sample(FALSE, "I need to know what tables exist.",
              <<Stmt(SelTables)>>) >>

\* SQLWTFer.errors
errors(ex) == Cardinality({i \in DOMAIN ex : ex[i].errored})

\* next_model without the comparison with the active model
next_model_first(m) == MODELS[1]

\* SQLWTFer.next_model
next_model(m) ==
    IF MODELS[1] # m THEN MODELS[1] ELSE MODELS[2]

\* the failover with range(errors) one short
FailoverPopsOneLess(ex, m) ==
    LET e == errors(ex)
    IN  IF e > 1
        THEN [model |-> next_model(m),
              examples |-> SubSeq(ex, 1, Len(ex) - e + 1),
              popped |-> SubSeq(ex, Len(ex) - e + 2, Len(ex))]
        ELSE [model |-> m, examples |-> ex, popped |-> <<>>]

\* the failover with the comparison errors >= 1 in place of errors > 1
FailoverOnFirstError(ex, m) ==
    LET e == errors(ex)
    IN  IF e >= 1
        THEN [model |-> next_model(m),
              examples |-> SubSeq(ex, 1, Len(ex) - e),
              popped |-> SubSeq(ex, Len(ex) - e + 1, Len(ex))]
        ELSE [model |-> m, examples |-> ex, popped |-> <<>>]

\* the failover popping from the front of the Transcript
FailoverPopsHead(ex, m) ==
    LET e == errors(ex)
    IN  IF e > 1
        THEN [model |-> next_model(m),
              examples |-> SubSeq(ex, e + 1, Len(ex)),
              popped |-> SubSeq(ex, 1, e)]
        ELSE [model |-> m, examples |-> ex, popped |-> <<>>]

\* The head of SQLWTFer._query: the failover on the error history
FailoverPolicy(ex, m) ==
    LET e == errors(ex)
    IN  IF e > 1
        THEN [model |-> next_model(m),
              examples |-> SubSeq(ex, 1, Len(ex) - e),
              popped |-> SubSeq(ex, Len(ex) - e + 1, Len(ex))]
        ELSE [model |-> m, examples |-> ex, popped |-> <<>>]

\* the prompt with the plan spliced in whatever the error history
PromptWithPlan(ex, m) == [examples |-> ex, engine |-> m, steps |-> TRUE]

\* SQLWTFer.prompt as sent with a request: the records it formats, the
\* engine of the request and whether SQLWTFer.steps splices the plan in
Prompt(ex, m) == [examples |-> ex, engine |-> m, steps |-> errors(ex) # 0]

\* the size of a prompt in records: SQLWTFer.prompt formats every record of
\* the Transcript, whatever their number
PromptSize(p) == Len(p.examples)

\* the sentinel written on the first record in place of the last
mark_too_long_head(ex) ==
    IF Len(ex) = 0 THEN ex
    ELSE [ex EXCEPT ![1].response = TooLong, ![1].writes = @ + 1]

\* the handler of the APIError "maximum context length" in _query:
\* self.examples[-1].response = "(too long)" (the Transcript always holds
\* the first seed example, so examples[-1] exists)
mark_too_long(ex) ==
    IF Len(ex) = 0 THEN ex
    ELSE [ex EXCEPT ![Len(ex)].response = TooLong, ![Len(ex)].writes = @ + 1]

\* a retry that allows one attempt more
retry_one_more(n) == n > RETRY_TRIES

\* the retry decorator gives up after this many attempts
retry_exhausted(n) == n >= RETRY_TRIES


\* ----------------------------------------------------------------- state
VARIABLES
    pc,         \* "prime": in __iter__; "ready": between two steps of the
                \* iteration; "query": in _query; "stopped": StopIteration;
                \* "failed": a transport error left the retry;
                \* "crashed": another exception left __next__
    examples,   \* the Transcript
    model,      \* the active model
    db,         \* the database behind the cursor
    tries,      \* attempts made by the running retry
    calls,      \* model calls started by __next__
    failures,   \* failed request attempts of the session
    cursorLog,  \* statements Sample._execute passed to the cursor
    contribLog, \* statements that contributed a result to a response
    step,       \* what the latest step of the iteration did (sample: the
                \* record it executed or yielded; constructed: the query
                \* the latest parsed record was constructed with)
    prompt,     \* the prompt of the latest request of _query
    popped,     \* the records the latest attempt of _query popped
    call,       \* the running (or latest) call of _query: the errors it
                \* started with, its attempts that met a rate-limit and a
                \* context-length error, the error of its latest failed
                \* attempt, the model of the previous completion, the
                \* model that served it, the Transcript it started with
    result,     \* SQLWTFer.result: the position of the record the cached
                \* property holds (0: not evaluated) and whether
                \* SQLWTFer.execute has run
    lim,        \* the limit rewriting applied to one statement on its
                \* own: the statement, the validator's leniency, the
                \* function applied last, the result of the first
                \* application and the latest result
    san,        \* Sample.populate applied to one record on its own: the
                \* record, whether populate has run, and what its run
                \* left (trace, statements passed to the cursor, results)
    trip        \* Sample.format and Sample.parse applied to one record on
                \* its own: the record, the function applied last, the
                \* formatted text and the parsed record

vars ==
    <<pc, examples, model, db, tries, calls, failures, cursorLog, contribLog,
      step, prompt, popped, call, result, lim, san, trip>>

session ==
    <<pc, examples, model, db, tries, calls, failures, cursorLog, contribLog,
      step, prompt, popped, call, result>>

NoSan == [s |-> <<>>, done |-> FALSE, trace |-> <<>>, log |-> {},
          results |-> <<>>, crashed |-> FALSE]

NoTrip == [s |-> <<>>, op |-> "none", text |-> <<>>, out |-> <<>>]

NoLim == [stmt |-> <<>>, lenient |-> FALSE, op |-> "none",
          first |-> <<>>, out |-> <<>>]

NoStep ==
    [outcome |-> "none", parsed |-> FALSE, parsedFinal |-> FALSE,
     raised |-> FALSE, demoted |-> FALSE, sample |-> Sample(FALSE, "", <<>>),
     constructed |-> <<>>, erred |-> FALSE]

Init ==
    /\ pc = "prime"
    /\ examples = EXAMPLES
    /\ model \in CliModels
    /\ db = InitialDb
    /\ tries = 0
    /\ calls = 0
    /\ failures = 0
    /\ cursorLog = {}
    /\ contribLog = {}
    /\ step = NoStep
    /\ prompt = Prompt(<<>>, model)
    /\ popped = <<>>
    /\ call = [errors |-> 0, rate |-> 0, ctx |-> 0, last |-> "none",
               prev |-> model, served |-> model, done |-> FALSE,
               start |-> EXAMPLES]
    /\ result = [index |-> 0, executed |-> FALSE]
    /\ lim = NoLim
    /\ san = NoSan
    /\ trip = NoTrip

\* one failed attempt under the retry decorator
Failed ==
    /\ failures < MaxFailures
    /\ failures' = failures + 1
    /\ tries' = tries + 1
    /\ pc' = IF retry_exhausted(tries + 1) THEN "failed" ELSE pc

\* SQLWTFer.prime, the request succeeds: the examples are populated in order
PrimeOk ==
    /\ pc = "prime"
    /\ LET c1 == populate(examples[1], db)
           c2 == populate(examples[2], c1.db)
       IN  /\ examples' = <<c1.s, c2.s>>
           /\ db' = c2.db
           /\ cursorLog' = cursorLog \cup c1.log \cup c2.log
           /\ contribLog' = contribLog \cup c1.contrib \cup c2.contrib
    /\ pc' = "ready"
    /\ tries' = 0
    /\ UNCHANGED <<san, trip, lim, result, model, calls, failures, step, prompt, popped, call>>

\* SQLWTFer.prime, the request raises
PrimeFail ==
    /\ pc = "prime"
    /\ Failed
    /\ UNCHANGED <<san, trip, lim, result, examples, model, db, calls, cursorLog, contribLog, step,
                   prompt, popped, call>>

\* SQLWTFer.__next__ up to the call of _query: the tail record is executed
NextStart(bound) ==
    /\ pc = "ready"
    /\ calls < bound
    /\ LET n == Len(examples)
           c == populate(examples[n], db)
       IN  /\ examples' = [examples EXCEPT ![n] = c.s]
           /\ db' = c.db
           /\ cursorLog' = cursorLog \cup c.log
           /\ contribLog' = contribLog \cup c.contrib
           /\ pc' = IF c.crashed THEN "crashed" ELSE "query"
           /\ step' = [step EXCEPT !.outcome = IF c.crashed THEN "raise" ELSE "none",
                                   !.parsed = FALSE, !.parsedFinal = FALSE,
                                   !.raised = c.raised, !.sample = c.s,
                                   !.erred = @ \/ c.raised]
           /\ call' = [errors |-> errors(examples'), rate |-> 0, ctx |-> 0,
                       last |-> "none",
                       prev |-> call.served, served |-> call.served,
                       done |-> FALSE, start |-> examples']
    /\ calls' = calls + 1
    /\ tries' = 0
    /\ UNCHANGED <<san, trip, lim, result, model, failures, prompt, popped>>

\* an attempt of _query whose request returns raw, and the rest of __next__
AttemptOk(raw) ==
    /\ pc = "query"
    /\ LET f == FailoverPolicy(examples, model)
           sample == [parse(raw) EXCEPT !.born = calls]
           c == IF sample.final THEN populate(sample, db) ELSE Ctx(sample, db)
           demote == sample.final /\ ~c.crashed /\ c.s.errored
           last == IF demote THEN [c.s EXCEPT !.final = FALSE] ELSE c.s
       IN  /\ model' = f.model
           /\ popped' = f.popped
           /\ prompt' = Prompt(f.examples, f.model)
           /\ examples' = IF is_empty(sample) THEN f.examples
                          ELSE Append(f.examples, last)
           /\ db' = c.db
           /\ cursorLog' = cursorLog \cup c.log
           /\ contribLog' = contribLog \cup c.contrib
           /\ pc' = IF c.crashed THEN "crashed"
                    ELSE IF sample.final /\ ~c.s.errored THEN "stopped"
                    ELSE "ready"
           /\ step' = [outcome |-> IF c.crashed THEN "raise"
                                   ELSE IF sample.final /\ ~c.s.errored THEN "stop"
                                   ELSE "yield",
                       parsed |-> TRUE, parsedFinal |-> sample.final,
                       raised |-> c.raised, demoted |-> demote, sample |-> last,
                       constructed |-> parse(raw).query,
                       erred |-> step.erred \/ c.raised]
           /\ call' = [call EXCEPT !.served = f.model, !.done = TRUE]
    /\ tries' = tries + 1
    /\ UNCHANGED <<san, trip, lim, result, calls, failures>>

\* the RateLimitError handler without self.model = self.next_model()
AttemptRateLimitKeepsModel ==
    /\ pc = "query"
    /\ Failed
    /\ LET f == FailoverPolicy(examples, model)
       IN  /\ model' = f.model
           /\ examples' = f.examples
           /\ popped' = f.popped
           /\ prompt' = Prompt(f.examples, f.model)
    /\ call' = [call EXCEPT !.rate = @ + 1, !.last = "rate"]
    /\ UNCHANGED <<san, trip, lim, result, db, calls, cursorLog, contribLog, step>>

\* an attempt of _query whose request raises RateLimitError
AttemptRateLimit ==
    /\ pc = "query"
    /\ Failed
    /\ LET f == FailoverPolicy(examples, model)
       IN  /\ model' = next_model(f.model)
           /\ examples' = f.examples
           /\ popped' = f.popped
           /\ prompt' = Prompt(f.examples, f.model)
    /\ call' = [call EXCEPT !.rate = @ + 1, !.last = "rate"]
    /\ UNCHANGED <<san, trip, lim, result, db, calls, cursorLog, contribLog, step>>

\* the APIError handler without the test for "maximum context length"
AttemptAPIErrorMarksTail ==
    /\ pc = "query"
    /\ Failed
    /\ LET f == FailoverPolicy(examples, model)
       IN  /\ model' = f.model
           /\ examples' = mark_too_long(f.examples)
           /\ popped' = f.popped
           /\ prompt' = Prompt(f.examples, f.model)
    /\ call' = [call EXCEPT !.last = "api"]
    /\ UNCHANGED <<san, trip, lim, result, db, calls, cursorLog, contribLog, step>>

\* an attempt of _query whose request raises an APIError that is not about
\* the context length (or any other exception)
AttemptAPIError ==
    /\ pc = "query"
    /\ Failed
    /\ LET f == FailoverPolicy(examples, model)
       IN  /\ model' = f.model
           /\ examples' = f.examples
           /\ popped' = f.popped
           /\ prompt' = Prompt(f.examples, f.model)
    /\ call' = [call EXCEPT !.last = "api"]
    /\ UNCHANGED <<san, trip, lim, result, db, calls, cursorLog, contribLog, step>>

\* an attempt of _query whose request raises the APIError
\* "maximum context length"
AttemptContextLength ==
    /\ pc = "query"
    /\ Failed
    /\ LET f == FailoverPolicy(examples, model)
       IN  /\ model' = f.model
           /\ examples' = mark_too_long(f.examples)
           /\ popped' = f.popped
           /\ prompt' = Prompt(f.examples, f.model)
    /\ call' = [call EXCEPT !.ctx = @ + 1, !.last = "ctx"]
    /\ UNCHANGED <<san, trip, lim, result, db, calls, cursorLog, contribLog, step>>

\* the last record with a query
LastWithQuery(ex) ==
    CHOOSE i \in DOMAIN ex :
        /\ ex[i].query # <<>>
        /\ \A j \in DOMAIN ex : j > i => ex[j].query = <<>>

\* SQLWTFer.result, first evaluated by the caller when the iteration ended
Result ==
    /\ pc = "stopped"
    /\ result.index = 0
    /\ LET i == LastWithQuery(examples)
       IN  /\ examples' = [examples EXCEPT ![i].final = TRUE]
           /\ result' = [result EXCEPT !.index = i]
    /\ UNCHANGED <<san, trip, lim, pc, model, db, tries, calls, failures, cursorLog,
                   contribLog, step, prompt, popped, call>>

\* SQLWTFer.execute, called when the caller confirms
Execute ==
    /\ pc = "stopped"
    /\ result.index # 0
    /\ ~result.executed
    /\ LET c == populate(examples[result.index], db)
       IN  /\ examples' = [examples EXCEPT ![result.index] = c.s]
           /\ db' = c.db
           /\ cursorLog' = cursorLog \cup c.log
           /\ contribLog' = contribLog \cup c.contrib
           /\ pc' = IF c.crashed THEN "crashed" ELSE pc
    /\ result' = [result EXCEPT !.executed = TRUE]
    /\ UNCHANGED <<san, trip, lim, model, tries, calls, failures, step, prompt, popped, call>>

Next ==
    \/ PrimeOk
    \/ PrimeFail
    \/ NextStart(MaxCalls)
    \/ \E raw \in Raws : AttemptOk(raw)
    \/ AttemptRateLimit
    \/ AttemptAPIError
    \/ AttemptContextLength
    \/ Result
    \/ Execute

\* every model output, few turns
Spec == Init /\ [][Next]_vars

\* Init with the database file left open: a SQLite database or not
InitAnyDb ==
    /\ pc = "prime"
    /\ examples = EXAMPLES
    /\ model \in CliModels
    /\ db \in {InitialDb, NotADb}
    /\ tries = 0
    /\ calls = 0
    /\ failures = 0
    /\ cursorLog = {}
    /\ contribLog = {}
    /\ step = NoStep
    /\ prompt = Prompt(<<>>, model)
    /\ popped = <<>>
    /\ call = [errors |-> 0, rate |-> 0, ctx |-> 0, last |-> "none",
               prev |-> model, served |-> model, done |-> FALSE,
               start |-> EXAMPLES]
    /\ result = [index |-> 0, executed |-> FALSE]
    /\ lim = NoLim
    /\ san = NoSan
    /\ trip = NoTrip

\* every model output, few turns, on any file
SpecAnyDb == InitAnyDb /\ [][Next]_vars

NextLoop ==
    \/ PrimeOk
    \/ PrimeFail
    \/ NextStart(MaxTurns)
    \/ \E raw \in LoopRaws : AttemptOk(raw)
    \/ AttemptRateLimit
    \/ AttemptAPIError
    \/ AttemptContextLength
    \/ Result
    \/ Execute

\* the model outputs of LoopRaws, more turns
SpecLoop == Init /\ [][NextLoop]_vars

\* the outputs after which the Transcript stays short whatever their
\* number: a query that fails, a final record that fails, a final record
\* that runs
FairRaws ==
    { Raw("False", "r", TRUE, <<Stmt(SelErr)>>),
      Raw("True", "r", TRUE, <<Stmt(SelErr)>>),
      Raw("True", "r", TRUE, <<Stmt(SelOk)>>) }

\* NextStart for the model calls beyond MaxTurns, which are not counted
\* any more: the records parsed from them carry the number MaxTurns
NextStartUncounted ==
    /\ pc = "ready"
    /\ calls = MaxTurns
    /\ LET n == Len(examples)
           c == populate(examples[n], db)
       IN  /\ examples' = [examples EXCEPT ![n] = c.s]
           /\ db' = c.db
           /\ cursorLog' = cursorLog \cup c.log
           /\ contribLog' = contribLog \cup c.contrib
           /\ pc' = IF c.crashed THEN "crashed" ELSE "query"
           /\ step' = [step EXCEPT !.outcome = IF c.crashed THEN "raise" ELSE "none",
                                   !.parsed = FALSE, !.parsedFinal = FALSE,
                                   !.raised = c.raised, !.sample = c.s,
                                   !.erred = @ \/ c.raised]
           /\ call' = [errors |-> errors(examples'), rate |-> 0, ctx |-> 0,
                       last |-> "none",
                       prev |-> call.served, served |-> call.served,
                       done |-> FALSE, start |-> examples']
    /\ tries' = 0
    /\ UNCHANGED <<san, trip, lim, result, model, failures, prompt, popped, calls>>

NextFair ==
    \/ PrimeOk
    \/ PrimeFail
    \/ NextStart(MaxTurns)
    \/ NextStartUncounted
    \/ \E raw \in FairRaws : AttemptOk(raw)
    \/ AttemptRateLimit
    \/ AttemptAPIError
    \/ AttemptContextLength
    \/ Result
    \/ Execute

\* The iteration without a bound on the number of model calls, with the
\* outputs of FairRaws.  The program is one synchronous thread: a step that
\* can be taken is taken (the caller asks for the next record, the request
\* returns), which is weak fairness of the next-state relation; what the
\* model answers is not constrained.
SpecFair == Init /\ [][NextFair]_vars /\ WF_vars(NextFair)

\* The limit rewriting on its own: a statement of Statements is given to
\* _apply_limit (as execute does for an exploratory statement), its result
\* to _apply_limit again, or the statement to _relax_limit (as execute does
\* for a statement of a final record); no session runs.
InitLimit ==
    /\ pc = "sanitizer"
    /\ examples = EXAMPLES
    /\ model = MODELS[1]
    /\ db = InitialDb
    /\ tries = 0
    /\ calls = 0
    /\ failures = 0
    /\ cursorLog = {}
    /\ contribLog = {}
    /\ step = NoStep
    /\ prompt = Prompt(<<>>, model)
    /\ popped = <<>>
    /\ call = [errors |-> 0, rate |-> 0, ctx |-> 0, last |-> "none",
               prev |-> model, served |-> model, done |-> FALSE,
               start |-> EXAMPLES]
    /\ result = [index |-> 0, executed |-> FALSE]
    /\ \E t \in Statements, l \in BOOLEAN :
            lim = [NoLim EXCEPT !.stmt = t, !.lenient = l]
    /\ san = NoSan
    /\ trip = NoTrip

ApplyLimit ==
    /\ lim.op = "none"
    /\ lim.stmt # <<>>
    /\ LET out == _apply_limit_tokens(lim.stmt, MAX_RESULTS, lim.lenient)
       IN  lim' = [lim EXCEPT !.op = "apply", !.first = out, !.out = out]
    /\ UNCHANGED <<session, san, trip>>

ApplyLimitAgain ==
    /\ lim.op = "apply"
    /\ lim' = [lim EXCEPT !.op = "apply again",
                          !.out = _apply_limit_tokens(lim.out, MAX_RESULTS,
                                                      lim.lenient)]
    /\ UNCHANGED <<session, san, trip>>

RelaxLimit ==
    /\ lim.op = "none"
    /\ lim.stmt # <<>>
    /\ LET out == _relax_limit_tokens(lim.stmt, lim.lenient)
       IN  lim' = [lim EXCEPT !.op = "relax", !.first = out, !.out = out]
    /\ UNCHANGED <<session, san, trip>>

NextLimit ==
    \/ ApplyLimit
    \/ ApplyLimitAgain
    \/ RelaxLimit

SpecLimit == InitLimit /\ [][NextLimit]_vars

\* The state of a session outside its iteration, as InitLimit has it
Idle ==
    /\ examples = EXAMPLES
    /\ model = MODELS[1]
    /\ db = InitialDb
    /\ tries = 0
    /\ calls = 0
    /\ failures = 0
    /\ cursorLog = {}
    /\ contribLog = {}
    /\ step = NoStep
    /\ prompt = Prompt(<<>>, model)
    /\ popped = <<>>
    /\ call = [errors |-> 0, rate |-> 0, ctx |-> 0, last |-> "none",
               prev |-> model, served |-> model, done |-> FALSE,
               start |-> EXAMPLES]
    /\ result = [index |-> 0, executed |-> FALSE]

\* ------------------------------------------------- format and parse on text
\* A text is a sequence of tokens: the markers, the words True and False,
\* other words without white space, the space and the line break.
WS == {" ", "\n"}

RECURSIVE lstrip(_)
lstrip(t) == IF t # <<>> /\ Head(t) \in WS THEN lstrip(Tail(t)) ELSE t

RECURSIVE rstrip(_)
rstrip(t) ==
    IF t # <<>> /\ t[Len(t)] \in WS THEN rstrip(SubSeq(t, 1, Len(t) - 1)) ELSE t

\* str.strip
strip(t) == rstrip(lstrip(t))

\* the position of the first line break of t (0: none)
LineBreak(t) ==
    IF \E i \in DOMAIN t : t[i] = "\n"
    THEN CHOOSE i \in DOMAIN t : t[i] = "\n" /\ \A j \in 1..(i - 1) : t[j] # "\n"
    ELSE 0

\* str.splitlines
RECURSIVE splitlines(_)
splitlines(t) ==
    IF t = <<>> THEN <<>>
    ELSE LET i == LineBreak(t)
         IN  IF i = 0 THEN <<t>>
             ELSE <<SubSeq(t, 1, i - 1)>> \o splitlines(SubSeq(t, i + 1, Len(t)))

\* "\n".join
RECURSIVE join(_)
join(lines) ==
    IF lines = <<>> THEN <<>>
    ELSE IF Len(lines) = 1 THEN lines[1]
    ELSE lines[1] \o <<"\n">> \o join(Tail(lines))

\* dedent: every line stripped, then the whole text
dedent(t) ==
    LET lines == splitlines(t)
    IN  strip(join([i \in DOMAIN lines |-> strip(lines[i])]))

\* str(bool)
Bool(b) == IF b THEN "True" ELSE "False"

\* Sample.format: the template with its indentation, dedented
format_tokens(s) ==
    dedent(<<"\n">>
           \o <<" ", "FINAL:", " ", Bool(s.final), "\n">>
           \o <<" ", "REASON:", " ">> \o s.reason \o <<"\n">>
           \o <<"\n">>
           \o <<" ", "START-QUERY", "\n">>
           \o <<" ">> \o s.query \o <<"\n">>
           \o <<" ", "END-QUERY", "\n">>
           \o <<"\n">>
           \o <<" ", "RESPONSE:", "\n">>
           \o <<" ">> \o s.response \o <<"\n">>
           \o <<" ">>)

\* the position of the first token after position i that is no white space
\* (0: none): where a \s* after position i ends
NextNonWs(t, i) ==
    LET after == {j \in DOMAIN t : j > i /\ t[j] \notin WS}
    IN  IF after = {} THEN 0
        ELSE CHOOSE j \in after : \A k \in after : j <= k

First(S) == CHOOSE i \in S : \A k \in S : i <= k

Last(S) == CHOOSE i \in S : \A k \in S : i >= k

\* sqlvalidator on a text of tokens: a single statement word
IsValidTokens(q) == Len(q) = 1 /\ q[1] = "SELECT 1;"

\* Sample.parse on a text of tokens
parse_tokens(raw) ==
    LET finals == {i \in DOMAIN raw :
                    /\ raw[i] \in {"FINAL:", "final:"}
                    /\ NextNonWs(raw, i) # 0
                    /\ raw[NextNonWs(raw, i)] \in {"True", "False", "true", "false"}}
        final_match == finals # {}
        reasons == {i \in DOMAIN raw : raw[i] = "REASON:"}
        reason_match == reasons # {}
        starts == {i \in DOMAIN raw : raw[i] = "START-QUERY"}
        ends == {i \in DOMAIN raw : raw[i] = "END-QUERY"}
        query_match == starts # {} /\ ends # {} /\ First(starts) < Last(ends)
        final == final_match
                 /\ raw[NextNonWs(raw, First(finals))] \in {"True", "true"}
        reason ==
            IF ~reason_match THEN <<>>
            ELSE LET j == NextNonWs(raw, First(reasons))
                 IN  IF j = 0 THEN <<>>
                     ELSE LET rest == SubSeq(raw, j, Len(raw))
                              b == LineBreak(rest)
                          IN  strip(IF b = 0 THEN rest ELSE SubSeq(rest, 1, b - 1))
        bare == LET a == strip(raw)
                    b == IF a # <<>> /\ Head(a) = "FINAL:" THEN Tail(a) ELSE a
                IN  IF b # <<>> /\ b[Len(b)] = "END-QUERY"
                    THEN SubSeq(b, 1, Len(b) - 1) ELSE b
    IN  IF query_match
        THEN [final |-> final, reason |-> reason,
              query |-> strip(SubSeq(raw, First(starts) + 1, Last(ends) - 1))]
        ELSE IF ~reason_match /\ ~final_match
        THEN IF IsValidTokens(bare)
             THEN [final |-> TRUE, reason |-> reason, query |-> bare]
             ELSE [final |-> final, reason |-> reason, query |-> <<>>]
        ELSE [final |-> final, reason |-> reason, query |-> <<>>]

\* the token sequences over alphabet A of at most n tokens that a strip
\* leaves as they are
Stripped(A, n) ==
    UNION {{t \in [1..k -> A] : strip(t) = t} : k \in 0..n}

\* the reasons: one line
TripReasons == Stripped({"why", "START-QUERY", " "}, MaxReasonLen)

\* the queries: no END-QUERY marker
TripQueries == Stripped({"SELECT 1;", "REASON:", " ", "\n"}, MaxQueryLen)

\* the responses: None, a table, an error message quoting the marker
TripResponses == {<<"None">>, <<"<table>">>, <<"Error:", " ", "END-QUERY">>}

\* Sample.format and Sample.parse on their own: a record is formatted and
\* the text parsed; no session runs.
InitTrip ==
    /\ pc = "trip"
    /\ Idle
    /\ lim = NoLim
    /\ san = NoSan
    /\ \E f \in BOOLEAN, r \in TripReasons, q \in TripQueries, p \in TripResponses :
            trip = [NoTrip EXCEPT
                        !.s = [final |-> f, reason |-> r, query |-> q, response |-> p]]

Format ==
    /\ pc = "trip"
    /\ trip.op = "none"
    /\ trip' = [trip EXCEPT !.op = "format", !.text = format_tokens(trip.s)]
    /\ UNCHANGED <<session, lim, san>>

Parse ==
    /\ pc = "trip"
    /\ trip.op = "format"
    /\ trip' = [trip EXCEPT !.op = "parse", !.out = parse_tokens(trip.text)]
    /\ UNCHANGED <<session, lim, san>>

NextTrip ==
    \/ Format
    \/ Parse

SpecTrip == InitTrip /\ [][NextTrip]_vars

\* the statements given to populate on its own: every text, and the texts
\* with a SELECT also with a LIMIT clause of their own
PopulateStatements ==
    {Stmt(text) : text \in Texts \cup {SelBare}}
    \cup {[Stmt(text) EXCEPT !.limit = l] :
            text \in {t \in Texts : HasSelectToken(t)}, l \in 1..MaxLimitArg}

\* Sample.populate on its own: a record, final or not, holding one
\* statement of PopulateStatements is populated on the database as
\* _init_db leaves it; no session runs.
InitPopulate ==
    /\ pc = "populate"
    /\ Idle
    /\ lim = NoLim
    /\ trip = NoTrip
    /\ \E f \in BOOLEAN, st \in PopulateStatements :
            san = [NoSan EXCEPT !.s = Sample(f, "r", <<st>>)]

Populate ==
    /\ pc = "populate"
    /\ ~san.done
    /\ LET c == populate(san.s, InitialDb)
       IN  san' = [s |-> c.s, done |-> TRUE, trace |-> c.trace, log |-> c.log,
                   results |-> c.results, crashed |-> c.crashed]
    /\ UNCHANGED <<session, lim, trip>>

NextPopulate == Populate

SpecPopulate == InitPopulate /\ [][NextPopulate]_vars


\* ---------------------------------------------------------------- claims
Range(q) == {q[i] : i \in DOMAIN q}

\* C1: no statement the agent executes changes the database: its content
\* and its read-only execution mode stay what they were right after the
\* session was created.
C1_DatabaseNeverMutated == db = InitialDb

\* C2: a statement that is neither a SELECT nor a PRAGMA statement (nested
\* SELECT or not) is never passed to the cursor and contributes nothing to
\* a response.
C2_OnlySelectAndPragmaRun ==
    \A t \in cursorLog \cup contribLog : StmtType(t) \in {"SELECT", "PRAGMA"}

\* C3: a step that parsed a record ends the sequence iff the record was
\* parsed final and its execution did not set errored; in every other case
\* it yields the record, and a yielded record has final = false.
C3_StopIffFinalAndClean ==
    step.parsed =>
        /\ (step.outcome = "stop") <=> (step.parsedFinal /\ ~step.sample.errored)
        /\ step.outcome # "stop" => step.outcome = "yield" /\ ~step.sample.final

\* C4: a database exception raised while a record's statement executes is
\* not propagated: the execution completes with errored = true and the
\* synthetic error row in the response, and the loop keeps running.
C4_DatabaseErrorAbsorbed ==
    step.raised =>
        /\ step.outcome # "raise"
        /\ pc # "crashed"
        /\ step.sample.errored
        /\ ErrorRow \in Range(step.sample.response)

\* C5: a record parsed final whose execution errors is demoted (final
\* false, errored true), the loop continues, and the prompt of the next
\* model call holds that record with its synthetic error row as response.
C5_FinalErrorDemotedAndShown ==
    /\ [](step.parsedFinal /\ step.raised =>
            /\ step.demoted
            /\ pc = "ready"
            /\ ~step.sample.final
            /\ step.sample.errored)
    /\ [][pc = "query" /\ tries = 0 /\ step.demoted =>
            \E i \in DOMAIN prompt'.examples :
                /\ prompt'.examples[i] = examples[Len(examples)]
                /\ prompt'.examples[i].errored
                /\ ErrorRow \in Range(prompt'.examples[i].response)]_vars

\* C6: the Transcript never holds a record with empty query, empty reason
\* and final = false.
C6_NoEmptyRecord ==
    \A i \in DOMAIN examples :
        ~(examples[i].query = <<>> /\ examples[i].reason = "" /\ ~examples[i].final)


\* C7: an attempt of _query that finds errors > 1 builds its prompt with
\* the other model of MODELS and with exactly `errors` records removed from
\* the end of the Transcript; with errors <= 1 it removes nothing and keeps
\* the model.
C7_FailoverRotatesAndPops ==
    [][pc = "query" =>
        LET e == errors(examples)
        IN  IF e > 1
            THEN /\ prompt'.engine # model
                 /\ prompt'.engine \in Range(MODELS)
                 /\ prompt'.examples = SubSeq(examples, 1, Len(examples) - e)
                 /\ Len(popped') = e
            ELSE /\ prompt'.engine = model
                 /\ prompt'.examples = examples
                 /\ popped' = <<>>]_vars

\* a failover has popped the two errored records of the call and rotated
C7_Witness ==
    /\ Len(popped) > 1
    /\ Len(popped) = call.errors
    /\ prompt.engine # call.prev
    /\ prompt.engine \in Range(MODELS)

\* C8 as stated: the records a failover removes are exactly the errored
\* ones, so that right after the pop, and in the prompt built next, the
\* Transcript holds no errored record.
C8_PopRemovesAllErrored ==
    Len(popped) > 0 =>
        /\ \A i \in DOMAIN popped : popped[i].errored
        /\ errors(prompt.examples) = 0

\* C8 amended: a failover removes the last `errors` records, errored or
\* not; right after the pop, and in the prompt built next, the Transcript
\* holds no errored record exactly when every removed record was errored.
C8_PopRemovesTrailingRecords ==
    Len(popped) > 0 =>
        ((\A i \in DOMAIN popped : popped[i].errored)
            <=> errors(prompt.examples) = 0)

\* a failover that removed errored records only and left none behind
C8_Witness ==
    /\ Len(popped) > 1
    /\ \A i \in DOMAIN popped : popped[i].errored
    /\ errors(prompt.examples) = 0
    /\ pc = "query"

\* C9 as stated: a call that starts with more than one errored record is
\* served by a model other than the one of the previous completion,
\* whatever transport errors its attempts meet.
C9_ServedByOtherModel ==
    call.done /\ call.errors > 1 => call.served # call.prev

\* C9 amended: a call that starts with more than one errored record is
\* served by a model other than the one of the previous completion when
\* the number of its attempts that met a rate-limit error is even.
C9_ServedByOtherModelEvenRateLimits ==
    call.done /\ call.errors > 1 /\ call.rate % 2 = 0 =>
        call.served # call.prev

\* a call that failed over, met two rate-limit errors and was served
C9_Witness ==
    /\ call.done
    /\ call.errors > 1
    /\ call.rate = 2
    /\ call.served # call.prev

\* C10: a model call makes at most RETRY_TRIES attempts; when they all fail
\* the error reaches the caller and nothing runs after it; an attempt that
\* succeeds ends the call, and its completion is the one parsed.
C10_BoundedRetry ==
    /\ [](/\ tries <= RETRY_TRIES
          /\ pc = "failed" => tries = RETRY_TRIES /\ ~call.done
          /\ call.done => /\ pc \in {"ready", "stopped", "crashed"}
                          /\ step.parsed
                          /\ call.served = prompt.engine)
    /\ [][/\ pc # "failed"
          /\ pc = "query" /\ tries = RETRY_TRIES - 1 /\ ~call.done'
                => pc' = "failed"]_vars

\* the third attempt of a call of _query failed
C10_Witness ==
    /\ pc = "failed"
    /\ calls > 0
    /\ tries = RETRY_TRIES
    /\ ~step.parsed


\* C11: when an attempt of a model call fails with a rate-limit error and
\* another attempt follows, that attempt is sent to a model other than the
\* rate-limited one.
C11_RateLimitedModelNotRetried ==
    [][pc = "query" /\ call.last = "rate" =>
            prompt'.engine # prompt.engine]_vars

\* a call whose first attempt met a rate limit and whose second attempt was
\* served, by a model other than the rate-limited one
C11_Witness ==
    /\ call.done
    /\ tries = 2
    /\ call.rate = 1
    /\ call.errors <= 1
    /\ call.served # call.prev

\* C12: when an attempt fails with the context-length error, the tail
\* record's response is "(too long)" as the error is re-raised, the handler
\* leaves the active model the one the request was sent to, and the attempt
\* counts in the retry budget.
C12_ContextLengthMarksTail ==
    [][call'.ctx = call.ctx + 1 =>
            /\ examples'[Len(examples')].response = TooLong
            /\ model' = prompt'.engine
            /\ tries' = tries + 1
            /\ (tries + 1 = RETRY_TRIES => pc' = "failed")]_vars

\* the third attempt of a call met the context-length error
C12_Witness ==
    /\ pc = "failed"
    /\ call.last = "ctx"
    /\ examples[Len(examples)].response = TooLong
    /\ model = prompt.engine

\* C13 as stated: a call whose attempts all fail with generic or rate-limit
\* errors leaves the Transcript as it was when the call started.
C13_FailedCallKeepsTranscript ==
    pc = "failed" /\ calls > 0 /\ call.ctx = 0 => examples = call.start

\* C13 amended: a call whose attempts all fail with generic or rate-limit
\* errors leaves the Transcript as it was when the call started, less the
\* trailing records the failover of its first attempt removed (none when
\* the call started with at most one errored record).
C13_FailedCallKeepsTranscriptLessFailover ==
    pc = "failed" /\ calls > 0 /\ call.ctx = 0 =>
        examples = SubSeq(call.start, 1,
                          Len(call.start)
                            - (IF call.errors > 1 THEN call.errors ELSE 0))

\* a call without failover failed on rate-limit and generic errors and left
\* the Transcript alone
C13_Witness ==
    /\ pc = "failed"
    /\ calls > 0
    /\ call.ctx = 0
    /\ call.rate > 0
    /\ call.rate < RETRY_TRIES
    /\ call.errors <= 1
    /\ examples = call.start


\* C14: the response of a record, seed examples included, is written at
\* most once: no step writes a response that is already set.
C14_ResponseWrittenOnce ==
    \A i \in DOMAIN examples : examples[i].writes <= 1

\* C15: every appended record with a query is executed exactly once, right
\* before the prompt of the next model call is built (so a record that is
\* still the tail between two steps has not been executed), and the
\* accepted record is not executed before the caller asks for the answer.
C15_ExecutedOnceBeforeNextPrompt ==
    \A i \in DOMAIN examples :
        i > Len(EXAMPLES) /\ examples[i].query # <<>> /\ pc # "crashed" =>
            examples[i].runs =
                IF i < Len(examples) \/ pc \in {"query", "failed"} THEN 1 ELSE 0


\* what a record is across the changes execution makes to its fields
Ident(s) == s.born

\* the number of leading records two Transcripts share
CommonPrefix(a, b) ==
    LET m == IF Len(a) < Len(b) THEN Len(a) ELSE Len(b)
    IN  CHOOSE k \in 0..m :
            /\ \A i \in 1..k : Ident(a[i]) = Ident(b[i])
            /\ k < m => Ident(a[k + 1]) # Ident(b[k + 1])

\* C16: a step keeps a leading part of the Transcript in place and appends
\* at most one record to it; it drops records from the end only in an
\* attempt of _query whose failover sends the request to another model.
C16_TranscriptPopsAndAppendsAtEnd ==
    [][LET k == CommonPrefix(examples, examples')
       IN  /\ Len(examples') <= k + 1
           /\ k < Len(examples) =>
                /\ pc = "query"
                /\ errors(examples) > 1
                /\ prompt'.engine # model]_vars

\* an attempt popped the trailing records, was served by the other model
\* and its record was appended to what was left
C16_Witness ==
    /\ call.done
    /\ Len(popped) > 1
    /\ Len(examples) = Len(call.start) - Len(popped) + 1
    /\ prompt.engine # call.prev
    /\ examples[Len(examples)] = step.sample


\* C17 as stated: once a record's response is set, no later step changes
\* its fields final, reason, query and errored.
C17_FieldsFrozenOnceResponded ==
    [][\A i \in 1..CommonPrefix(examples, examples') :
            examples[i].response # None =>
                /\ examples'[i].final = examples[i].final
                /\ examples'[i].reason = examples[i].reason
                /\ examples'[i].query = examples[i].query
                /\ examples'[i].errored = examples[i].errored]_vars


\* C18: original_query is the query the record was constructed with (for a
\* seed, the query of EXAMPLES) and no step changes it; the text shown for
\* a yielded record is that query.
C18_OriginalQueryImmutable ==
    /\ [](\A i \in DOMAIN examples :
            /\ examples[i].born = 0 =>
                    /\ i <= Len(EXAMPLES)
                    /\ examples[i].original_query = EXAMPLES[i].query
            /\ examples[i].born > 0 /\ examples[i].born = step.sample.born =>
                    examples[i].original_query = step.constructed)
    /\ [](step.outcome = "yield" =>
            step.sample.original_query = step.constructed)
    /\ [][\A i \in 1..CommonPrefix(examples, examples') :
            examples'[i].original_query = examples[i].original_query]_vars

\* a record that was executed as final, demoted and executed again, and
\* whose query is no longer the text it was constructed with
C18_Witness ==
    \E i \in DOMAIN examples :
        /\ examples[i].born > 0
        /\ examples[i].runs = 2
        /\ examples[i].errored
        /\ examples[i].query # examples[i].original_query
        /\ examples[i].original_query = step.constructed


\* the statement with the clause LIMIT n before its terminator, or at its
\* end when it has none
WithLimitAtEnd(t, n) ==
    IF t[Len(t)] = ";"
    THEN SubSeq(t, 1, Len(t) - 1) \o <<"LIMIT", n, ";">>
    ELSE t \o <<"LIMIT", n>>

\* the number a token value spells
Value(v) == CHOOSE k \in 0..(MaxLimitArg + RELAXED_LIMIT) : ToString(k) = v

\* C19: limit injection gives a statement without LIMIT clause exactly one
\* clause LIMIT 2, before its terminator or at its end when it has none,
\* and injecting into the result changes nothing.
C19_InjectionAddsLimitAtEnd ==
    lim.op \in {"apply", "apply again"} /\ ~HasLimit(lim.stmt) =>
        /\ lim.first = WithLimitAtEnd(lim.stmt, ToString(MAX_RESULTS))
        /\ lim.out = lim.first

\* C20: limit relaxation leaves LIMIT 1 alone, turns any other limit n
\* into 25, which is not lower than n, and gives a statement without LIMIT
\* clause the clause LIMIT 25.
C20_RelaxationNeverLowers ==
    lim.op = "relax" =>
        IF HasLimit(lim.stmt)
        THEN LET i == LimitIndex(lim.stmt)
                 n == lim.stmt[i + 1]
             IN  IF n = "1" THEN lim.out = lim.stmt
                 ELSE /\ lim.out = [lim.stmt EXCEPT ![i + 1] = ToString(RELAXED_LIMIT)]
                      /\ Value(lim.out[i + 1]) >= Value(n)
        ELSE lim.out = WithLimitAtEnd(lim.stmt, ToString(RELAXED_LIMIT))

\* C21: a statement whose FROM target is a catalog table is executed with
\* the LIMIT it came with (none added, none rewritten), all its rows are
\* fetched and its rendering is not capped, for a final record and for a
\* record that is not final.
C21_CatalogUnlimited ==
    san.done =>
        \A i \in DOMAIN san.trace :
            LET e == san.trace[i]
            IN  e.kind = "run" /\ FromTable(e.text) \in SAFE_TABLES =>
                    /\ e.limit = e.given
                    /\ e.fetched = CursorRows([text |-> e.text, limit |-> e.given])
                    /\ ~e.capped

\* the entry is of a statement executed as exploratory: the record is not
\* final, the statement is no PRAGMA and its FROM target no catalog table
Exploratory(e) ==
    /\ e.kind = "run"
    /\ ~e.final
    /\ ~HasPragmaToken(e.text)
    /\ FromTable(e.text) \notin SAFE_TABLES

\* C22: of every statement executed as exploratory at most MAX_RESULTS
\* rows are fetched, and they are rendered capped, whether the statement
\* came with a LIMIT of its own, got LIMIT 2 injected or was left
\* without LIMIT clause because the injection was discarded.
C22_ExploratoryAtMostTwoRows ==
    san.done =>
        \A i \in DOMAIN san.trace :
            LET e == san.trace[i]
            IN  Exploratory(e) => e.fetched <= MAX_RESULTS /\ e.capped

\* an exploratory statement with a LIMIT of its own above 2, whose cursor
\* held more rows than were fetched
C22_Witness ==
    /\ san.done
    /\ \E i \in DOMAIN san.trace :
            LET e == san.trace[i]
            IN  /\ Exploratory(e)
                /\ e.given > MAX_RESULTS
                /\ e.limit = e.given
                /\ e.fetched = MAX_RESULTS
                /\ CursorRows([text |-> e.text, limit |-> e.limit]) > MAX_RESULTS

\* the other two cases of C22: LIMIT 2 injected, and the injection discarded
C22_WitnessInjected ==
    /\ san.done
    /\ \E i \in DOMAIN san.trace :
            LET e == san.trace[i]
            IN  Exploratory(e) /\ e.given = 0 /\ e.limit = MAX_RESULTS
                /\ e.fetched = MAX_RESULTS

C22_WitnessDiscarded ==
    /\ san.done
    /\ \E i \in DOMAIN san.trace :
            LET e == san.trace[i]
            IN  Exploratory(e) /\ e.given = 0 /\ e.limit = 0
                /\ e.fetched = MAX_RESULTS

C23_RoundTrip ==
    trip.op = "parse" =>
        /\ trip.out.final = trip.s.final
        /\ trip.out.reason = trip.s.reason
        /\ trip.out.query = trip.s.query

\* the same for the records with an empty reason
C23_RoundTripEmptyReason ==
    trip.op = "parse" /\ trip.s.reason = <<>> => trip.out.reason = <<>>

\* the same for the records whose reason and query hold no marker, no line
\* break and no space, and whose response holds no marker
C23_RoundTripPlain ==
    /\ trip.op = "parse"
    /\ trip.s.reason = <<"why">>
    /\ trip.s.query \in {<<>>, <<"SELECT 1;">>}
    /\ trip.s.response \in {<<"None">>, <<"<table>">>}
    => /\ trip.out.final = trip.s.final
       /\ trip.out.reason = trip.s.reason
       /\ trip.out.query = trip.s.query

\* C24: a prompt built before the first execution error of the session
\* does not contain the plan, and a prompt built after it does.  (Every
\* step taken while the request is pending is an attempt of _query, which
\* builds the prompt; step.erred tells whether a statement has raised
\* before it.)
C24_PlanAfterFirstError ==
    [][pc = "query" => (prompt'.steps <=> step.erred)]_vars

\* C24 amended: a prompt built before the first execution error does not
\* contain the plan; afterwards the prompt contains it exactly when the
\* Transcript it is built from, the failover's removal done, holds an
\* errored record: always with one errored record, and with more than one
\* only when an errored record lies below the records removed.
C24_PlanWhileErrorInTranscript ==
    [][pc = "query" =>
        LET e == errors(examples)
            kept == SubSeq(examples, 1, Len(examples) - e)
        IN  /\ ~step.erred => ~prompt'.steps
            /\ e = 1 => prompt'.steps
            /\ e > 1 => (prompt'.steps <=> \E i \in DOMAIN kept : kept[i].errored)
      ]_vars

\* a prompt was built after an execution error, from a Transcript the
\* failover had just taken the errored records out of, without the plan
C24_Witness ==
    /\ step.erred
    /\ popped # <<>>
    /\ \A i \in DOMAIN popped : popped[i].errored
    /\ prompt.examples # <<>>
    /\ ~prompt.steps

\* a prompt was built with the plan
C24_WitnessPlan == prompt.examples # <<>> /\ prompt.steps

\* a prompt was built with the plan from a Transcript the failover had just
\* shortened
C24_WitnessPlanAfterPop == popped # <<>> /\ prompt.steps

\* C30: whenever _query evaluates the failover, the Transcript holds at most
\* 2 errored records; a failover therefore removes exactly 2 records and
\* leaves at most 1 errored record, and a retry of the same call finds at
\* most 1 and removes nothing.
C30_FailoverPopsExactlyTwo ==
    [][pc = "query" =>
        /\ errors(examples) <= 2
        /\ errors(examples) > 1 =>
                /\ Len(popped') = 2
                /\ Len(prompt'.examples) = Len(examples) - 2
                /\ errors(prompt'.examples) <= 1
        /\ tries > 0 => errors(examples) <= 1 /\ popped' = <<>>
      ]_vars

\* a failover has removed two records
C30_Witness ==
    /\ Len(popped) = 2
    /\ errors(popped) >= 1
    /\ errors(prompt.examples) <= 1

\* a retry after an attempt whose failover removed two records
C30_WitnessRetry ==
    /\ tries >= 2
    /\ popped = <<>>
    /\ Len(examples) = Len(call.start) - 2

\* C28: when the iteration has ended with StopIteration, the record that
\* SQLWTFer.result exposes is the record whose acceptance ended it, and it
\* has a query, is final and is not errored.
C28_ResultIsAcceptedRecord ==
    result.index # 0 /\ ~result.executed =>
        LET r == examples[result.index]
        IN  /\ result.index = Len(examples)
            /\ Ident(r) = Ident(step.sample)
            /\ r.query # <<>>
            /\ r.final
            /\ ~r.errored

\* the same when the accepted record has a query
C28_ResultIsAcceptedRecordWithQuery ==
    result.index # 0 /\ ~result.executed /\ step.sample.query # <<>> =>
        LET r == examples[result.index]
        IN  /\ result.index = Len(examples)
            /\ Ident(r) = Ident(step.sample)
            /\ r.final
            /\ ~r.errored

\* the exposed record is an errored one
C28_ResultErrored ==
    result.index # 0 /\ ~result.executed /\ examples[result.index].errored

\* C29: a record is accepted as the final answer only if it has a query,
\* every statement of the query was passed to the cursor and none raised.
C29_AcceptedOnlyIfRun ==
    step.outcome = "stop" =>
        /\ step.sample.query # <<>>
        /\ step.sample.runs >= 1
        /\ \A i \in DOMAIN step.sample.original_query :
                step.sample.original_query[i].text \in cursorLog
        /\ ~step.raised

\* the same for populate on its own: a final record that populate leaves
\* not errored (the record __next__ accepts) had its statement passed to
\* the cursor
C29_NotErroredOnlyIfRun ==
    san.done /\ san.s.final /\ ~san.s.errored =>
        \A i \in DOMAIN san.s.original_query :
            san.s.original_query[i].text \in san.log

\* C26: every run of the loop ends: eventually a final record is accepted
\* or a transport failure reaches the caller.
C26_LoopTerminates == <>(pc \in {"stopped", "failed"})

\* C27: every prompt sent with a request is within the context limit of
\* the model.
C27_PromptWithinContext == PromptSize(prompt) <= ContextLimit

\* the record is the i-th seed example (its response, its executed query
\* and its flags may have been written since)
IsSeed(s, i) ==
    /\ Ident(s) = 0
    /\ s.reason = EXAMPLES[i].reason
    /\ s.original_query = EXAMPLES[i].original_query

\* C31: after priming the Transcript starts with the two seed examples, no
\* record the failover removes is a seed example, and the Transcript is not
\* empty (its tail record exists whenever __next__ or _query uses it).
C31_SeedsStay ==
    pc # "prime" =>
        /\ Len(examples) >= 2
        /\ IsSeed(examples[1], 1)
        /\ IsSeed(examples[2], 2)
        /\ \A i \in DOMAIN popped : Ident(popped[i]) # 0

\* the part of C31 that holds on any file: the Transcript starts with the
\* first seed example and is never empty
C31_FirstSeedStays ==
    pc # "prime" => Len(examples) >= 1 /\ IsSeed(examples[1], 1)

\* the failover has removed the second seed example
C31_SeedPopped == \E i \in DOMAIN popped : IsSeed(popped[i], 2)

====
